---- MODULE Spec2Model ----
(***************************************************************************)
(* Model of the query cache engine of dalgurak:                            *)
(*   - OptimizedCache       (src/ai/core/cache.py)                          *)
(*   - AsyncRequestHandler  (src/ai/core/async_handler.py)                  *)
(*   - OptimizedRecipeRAG   (src/ai/core/rag_engine.py)                     *)
(* Time is a discrete clock `now`; every time.time() call reads it.        *)
(***************************************************************************)
EXTENDS Integers, Sequences, FiniteSets, TLC

(***************************************************************************)
(* Bounds of the model.                                                    *)
(***************************************************************************)
\* largest clock value
MaxTime == 2
\* largest capacity (maxsize) of a cache driven by the direct cache client
MaxCap == 2
\* ttl of a cache driven by the direct cache client
ClientTtl == 2

VARIABLES
    now,              \* the wall clock read by time.time()
    response_cache,   \* OptimizedCache: [cache, maxsize, ttl]
    lastOp,           \* the last cache operation of the direct client and its result
    written,          \* per key: the most recent set(k, v, at) unless evicted or cleared since
    fill,             \* keys written since the cache was last empty, while only fresh keys were set
    embedding_cache,  \* OptimizedCache of embeddings and relevance scores
    request_count,    \* OptimizedRecipeRAG.request_count
    error_count,      \* OptimizedRecipeRAG.error_count
    cache_hits,       \* OptimizedRecipeRAG.cache_hits
    last_request_time,\* AsyncRequestHandler._last_request_time
    semaphore,        \* free slots of AsyncRequestHandler.semaphore
    max_concurrent,   \* AsyncRequestHandler.max_concurrent
    task,             \* the coroutines of the running batch, by position
    batch,            \* the batch call: its entry point, phase and returned list
    lastAsk,          \* what the last synchronous ask() returned
    asks              \* number of synchronous ask() calls made

clientVars == <<lastOp, written, fill>>
engineVars == <<embedding_cache, request_count, error_count, cache_hits,
                last_request_time, semaphore, max_concurrent, task, batch, lastAsk, asks>>
vars == <<now, response_cache, lastOp, written, fill, embedding_cache, request_count,
          error_count, cache_hits, last_request_time, semaphore,
          max_concurrent, task, batch, lastAsk, asks>>

(***************************************************************************)
(* Values.  Python values of different types are tagged records.           *)
(***************************************************************************)
None == [type |-> "None"]
Str(s) == [type |-> "str", text |-> s]

\* hashlib.md5(text.encode()).hexdigest(): one digest per text
Md5(text) == <<"md5", text>>

CacheKeys == {Md5("k1"), Md5("k2"), Md5("k3")}
CacheValues == {Str("v1"), Str("v2")}

(***************************************************************************)
(* OptimizedCache.  self._cache is a dict: a sequence of entries in        *)
(* insertion order, at most one entry per key.                             *)
(***************************************************************************)
Entry(k, v, t) == [key |-> k, value |-> v, timestamp |-> t]

NewCache(maxsize, ttl) == [cache |-> <<>>, maxsize |-> maxsize, ttl |-> ttl]

KeysOf(es) == {es[i].key : i \in 1..Len(es)}

\* position of key k in the dict, 0 when absent
IndexOfKey(es, k) ==
    IF k \in KeysOf(es) THEN CHOOSE i \in 1..Len(es) : es[i].key = k ELSE 0

RemoveAt(es, i) == SubSeq(es, 1, i - 1) \o SubSeq(es, i + 1, Len(es))

\* self._cache[key] = {...}: overwrite in place, or append a new key
DictAssign(es, k, v, t) ==
    LET i == IndexOfKey(es, k)
    IN  IF i = 0 THEN Append(es, Entry(k, v, t))
        ELSE [es EXCEPT ![i] = Entry(k, v, t)]

\* del self._cache[key]
DictDelete(es, k) == RemoveAt(es, IndexOfKey(es, k))

\* a min that takes the last key, in dict order, among those of smallest
\* timestamp
OldestIndex_LastOfTies(es) ==
    CHOOSE i \in 1..Len(es) :
        /\ \A j \in 1..Len(es) : es[i].timestamp <= es[j].timestamp
        /\ \A j \in (i + 1)..Len(es) : es[j].timestamp > es[i].timestamp

\* min(self._cache.keys(), key=timestamp): the first key, in dict order,
\* among those of smallest timestamp
OldestIndex(es) ==
    CHOOSE i \in 1..Len(es) :
        /\ \A j \in 1..Len(es) : es[i].timestamp <= es[j].timestamp
        /\ \A j \in 1..(i - 1) : es[j].timestamp > es[i].timestamp

\* a cleanup that deletes the newest entry instead of the oldest
Cache_cleanup_oldest_Newest(c) ==
    IF c.cache = <<>> THEN c
    ELSE LET i == CHOOSE i \in 1..Len(c.cache) :
                      \A j \in 1..Len(c.cache) : c.cache[i].timestamp >= c.cache[j].timestamp
         IN  [c EXCEPT !.cache = RemoveAt(c.cache, i)]

Cache_cleanup_oldest(c) ==
    IF c.cache = <<>> THEN c
    ELSE [c EXCEPT !.cache = RemoveAt(c.cache, OldestIndex(c.cache))]

\* a set that evicts as soon as the capacity is reached (len >= maxsize)
Cache_set_AtCapacity(c, k, v, t) ==
    LET c1 == [c EXCEPT !.cache = DictAssign(c.cache, k, v, t)]
    IN  IF Len(c1.cache) >= c1.maxsize THEN Cache_cleanup_oldest(c1) ELSE c1

Cache_set(c, k, v, t) ==
    LET c1 == [c EXCEPT !.cache = DictAssign(c.cache, k, v, t)]
    IN  IF Len(c1.cache) > c1.maxsize THEN Cache_cleanup_oldest(c1) ELSE c1

Cache_setitem(c, k, v, t) ==
    LET c1 == [c EXCEPT !.cache = DictAssign(c.cache, k, v, t)]
    IN  IF Len(c1.cache) > c1.maxsize THEN Cache_cleanup_oldest(c1) ELSE c1

\* a get that still returns an entry of age = ttl (<= instead of <)
Cache_get_Inclusive(c, k, t) ==
    IF k \in KeysOf(c.cache)
    THEN LET item == c.cache[IndexOfKey(c.cache, k)]
         IN  IF t - item.timestamp <= c.ttl
             THEN [cache |-> c, value |-> item.value]
             ELSE [cache |-> [c EXCEPT !.cache = DictDelete(c.cache, k)], value |-> None]
    ELSE [cache |-> c, value |-> None]

\* a get that refreshes the timestamp of the entry it returns
Cache_get_Touch(c, k, t) ==
    IF k \in KeysOf(c.cache)
    THEN LET item == c.cache[IndexOfKey(c.cache, k)]
         IN  IF t - item.timestamp < c.ttl
             THEN [cache |-> [c EXCEPT !.cache = DictAssign(c.cache, k, item.value, t)],
                   value |-> item.value]
             ELSE [cache |-> [c EXCEPT !.cache = DictDelete(c.cache, k)], value |-> None]
    ELSE [cache |-> c, value |-> None]

\* a get that answers the default for an expired entry but leaves it stored
Cache_get_KeepExpired(c, k, t) ==
    IF k \in KeysOf(c.cache)
    THEN LET item == c.cache[IndexOfKey(c.cache, k)]
         IN  IF t - item.timestamp < c.ttl
             THEN [cache |-> c, value |-> item.value]
             ELSE [cache |-> c, value |-> None]
    ELSE [cache |-> c, value |-> None]

\* get(key, default=None): [cache after the call, value returned]
Cache_get(c, k, t) ==
    IF k \in KeysOf(c.cache)
    THEN LET item == c.cache[IndexOfKey(c.cache, k)]
         IN  IF t - item.timestamp < c.ttl
             THEN [cache |-> c, value |-> item.value]
             ELSE [cache |-> [c EXCEPT !.cache = DictDelete(c.cache, k)], value |-> None]
    ELSE [cache |-> c, value |-> None]

\* a membership test without the lazy deletion
Cache_contains_ReadOnly(c, k, t) ==
    IF k \in KeysOf(c.cache)
    THEN [cache |-> c, value |-> t - c.cache[IndexOfKey(c.cache, k)].timestamp < c.ttl]
    ELSE [cache |-> c, value |-> FALSE]

\* key in cache: [cache after the call, value returned]
Cache_contains(c, k, t) ==
    IF k \in KeysOf(c.cache)
    THEN IF t - c.cache[IndexOfKey(c.cache, k)].timestamp < c.ttl
         THEN [cache |-> c, value |-> TRUE]
         ELSE [cache |-> [c EXCEPT !.cache = DictDelete(c.cache, k)], value |-> FALSE]
    ELSE [cache |-> c, value |-> FALSE]

\* cache[key]: [cache after the call, value returned, raised (KeyError)]
Cache_getitem(c, k, t) ==
    IF k \in KeysOf(c.cache)
    THEN LET item == c.cache[IndexOfKey(c.cache, k)]
         IN  IF t - item.timestamp < c.ttl
             THEN [cache |-> c, value |-> item.value, raised |-> FALSE]
             ELSE [cache |-> [c EXCEPT !.cache = DictDelete(c.cache, k)],
                   value |-> None, raised |-> TRUE]
    ELSE [cache |-> c, value |-> None, raised |-> TRUE]

Cache_clear(c) == [c EXCEPT !.cache = <<>>]

\* indices of the entries with current_time - timestamp < ttl
ValidIndices(c, t) == {i \in 1..Len(c.cache) : t - c.cache[i].timestamp < c.ttl}

Cache_keys(c, t) == {c.cache[i].key : i \in ValidIndices(c, t)}

\* the entries a listing walks over and keeps, in dict order
ValidEntries(c, t) == SelectSeq(c.cache, LAMBDA e : t - e.timestamp < c.ttl)

\* items(): the (key, value) pairs of the valid entries
Cache_items(c, t) ==
    LET es == ValidEntries(c, t) IN [i \in 1..Len(es) |-> <<es[i].key, es[i].value>>]

\* values(): the values of the valid entries
Cache_values(c, t) ==
    LET es == ValidEntries(c, t) IN [i \in 1..Len(es) |-> es[i].value]

\* a length that counts every stored entry, expired or not
Cache_len_Physical(c, t) == Len(c.cache)

Cache_len(c, t) == Cardinality(ValidIndices(c, t))

RECURSIVE DropExpired(_, _, _)
DropExpired(es, t, ttl) ==
    IF es = <<>> THEN <<>>
    ELSE IF t - Head(es).timestamp >= ttl THEN DropExpired(Tail(es), t, ttl)
         ELSE <<Head(es)>> \o DropExpired(Tail(es), t, ttl)

\* cleanup_expired(): [cache after the call, number of entries deleted]
Cache_cleanup_expired(c, t) ==
    LET kept == DropExpired(c.cache, t, c.ttl)
    IN  [cache |-> [c EXCEPT !.cache = kept], value |-> Len(c.cache) - Len(kept)]

(***************************************************************************)
(* The direct cache client: any sequence of cache operations and clock     *)
(* advances on one OptimizedCache.                                         *)
(***************************************************************************)
NoOp == [op |-> "none"]
NoFill == [ok |-> FALSE, keys |-> <<>>]

\* bookkeeping of a write of key k, value v at time t that led from c to c1
WrittenAfterWrite(c1, k, v, t) ==
    [x \in CacheKeys |->
        IF x \in KeysOf(response_cache.cache) \cup {k} /\ x \notin KeysOf(c1.cache)
        THEN None
        ELSE IF x = k THEN [value |-> v, at |-> t] ELSE written[x]]

\* keys removed by a write of key k that led to c1
Evicted(c1, k) == (KeysOf(response_cache.cache) \cup {k}) \ KeysOf(c1.cache)

FillAfterWrite(k) ==
    IF fill.ok /\ k \notin {fill.keys[i] : i \in 1..Len(fill.keys)}
               /\ Len(fill.keys) <= response_cache.maxsize
    THEN [fill EXCEPT !.keys = Append(fill.keys, k)]
    ELSE NoFill

FillAfterRead(c1) == IF c1 = response_cache THEN fill ELSE NoFill

CSet(k, v) ==
    LET c1 == Cache_set(response_cache, k, v, now)
    IN  /\ response_cache' = c1
        /\ lastOp' = [op |-> "set", key |-> k, evicted |-> Evicted(c1, k)]
        /\ written' = WrittenAfterWrite(c1, k, v, now)
        /\ fill' = FillAfterWrite(k)
        /\ UNCHANGED <<now, engineVars>>

CSetItem(k, v) ==
    LET c1 == Cache_setitem(response_cache, k, v, now)
    IN  /\ response_cache' = c1
        /\ lastOp' = [op |-> "setitem", key |-> k, evicted |-> Evicted(c1, k)]
        /\ written' = WrittenAfterWrite(c1, k, v, now)
        /\ fill' = FillAfterWrite(k)
        /\ UNCHANGED <<now, engineVars>>

CGet(k) ==
    LET r == Cache_get(response_cache, k, now)
    IN  /\ response_cache' = r.cache
        /\ lastOp' = [op |-> "get", key |-> k, value |-> r.value,
                      removed |-> r.cache # response_cache]
        /\ fill' = FillAfterRead(r.cache)
        /\ UNCHANGED <<now, written, engineVars>>

CContains(k) ==
    LET r == Cache_contains(response_cache, k, now)
    IN  /\ response_cache' = r.cache
        /\ lastOp' = [op |-> "contains", key |-> k, value |-> r.value]
        /\ fill' = FillAfterRead(r.cache)
        /\ UNCHANGED <<now, written, engineVars>>

CGetItem(k) ==
    LET r == Cache_getitem(response_cache, k, now)
    IN  /\ response_cache' = r.cache
        /\ lastOp' = [op |-> "getitem", key |-> k, value |-> r.value, raised |-> r.raised]
        /\ fill' = FillAfterRead(r.cache)
        /\ UNCHANGED <<now, written, engineVars>>

CClear ==
    /\ response_cache' = Cache_clear(response_cache)
    /\ lastOp' = [op |-> "clear"]
    /\ written' = [x \in CacheKeys |-> None]
    /\ fill' = [ok |-> TRUE, keys |-> <<>>]
    /\ UNCHANGED <<now, engineVars>>

CLen ==
    /\ lastOp' = [op |-> "len", value |-> Cache_len(response_cache, now),
                  keys |-> Cache_keys(response_cache, now),
                  items |-> Cache_items(response_cache, now),
                  values |-> Cache_values(response_cache, now)]
    /\ UNCHANGED <<now, response_cache, written, fill, engineVars>>

CCleanupExpired ==
    LET r == Cache_cleanup_expired(response_cache, now)
    IN  /\ response_cache' = r.cache
        /\ lastOp' = [op |-> "cleanup_expired", value |-> r.value]
        /\ fill' = FillAfterRead(r.cache)
        /\ UNCHANGED <<now, written, engineVars>>

\* the clock advances between two calls
Tick ==
    /\ now < MaxTime
    /\ now' = now + 1
    /\ lastOp' = NoOp
    /\ UNCHANGED <<response_cache, written, fill, engineVars>>

InitCache ==
    /\ now = 0
    /\ \E m \in 1..MaxCap : response_cache = NewCache(m, ClientTtl)
    /\ lastOp = NoOp
    /\ written = [x \in CacheKeys |-> None]
    /\ fill = [ok |-> TRUE, keys |-> <<>>]
    /\ embedding_cache = NewCache(MaxCap, ClientTtl)
    /\ request_count = 0 /\ error_count = 0 /\ cache_hits = 0
    /\ last_request_time = 0 /\ semaphore = 0 /\ max_concurrent = 0
    /\ task = <<>>
    /\ batch = [entry |-> "none"]
    /\ lastAsk = [source |-> "pending"]
    /\ asks = 0

NextCache ==
    \/ \E k \in CacheKeys, v \in CacheValues : CSet(k, v)
    \/ \E k \in CacheKeys, v \in CacheValues : CSetItem(k, v)
    \/ \E k \in CacheKeys : CGet(k)
    \/ \E k \in CacheKeys : CContains(k)
    \/ \E k \in CacheKeys : CGetItem(k)
    \/ CClear
    \/ CLen
    \/ CCleanupExpired
    \/ Tick

SpecCache == InitCache /\ [][NextCache]_vars

(***************************************************************************)
(* Texts.  A text is named by an id; what the scorers look at is which of  *)
(* the keywords occur in it as substrings and its layout.  Korean keywords *)
(* are written in romanised form.                                          *)
(***************************************************************************)
\* lower-cased generated answers the generation backend may return
TextOf(id) ==
    CASE id = "good" -> [words |-> {"jaeryo", "yori", "tip"}, numbered |-> TRUE,
                         bullet |-> TRUE, paragraphs |-> 3]
      [] id = "poor" -> [words |-> {"mat"}, numbered |-> FALSE,
                         bullet |-> FALSE, paragraphs |-> 1]
      [] OTHER       -> [words |-> {}, numbered |-> FALSE,
                         bullet |-> FALSE, paragraphs |-> 1]

AnswerTexts == {"good", "poor", ""}

\* keyword in text (substring test): "jori" also occurs inside "joribeop"
Occurs(kw, text) ==
    \/ kw \in text.words
    \/ kw = "jori" /\ "joribeop" \in text.words

\* required_sections of _calculate_quality_metrics
RequiredSections ==
    << {"jaeryo", "junbimul", "piryohan", "isseoya"},
       {"jori", "mandeulgi", "yori", "bangbeop", "gwajeong"},
       {"tip", "juui", "pointeu", "jungyo", "bibeop"} >>

\* relevance_keywords of _calculate_quality_metrics, weights in tenths
RelevanceWeight ==
    [kw \in {"yori", "resipi", "mandeulgi", "joribeop", "kkeurigi", "bokkgi",
             "gupgi", "jaeryo", "yangnyeom", "gan", "mat", "eumsik"} |->
        CASE kw \in {"yori", "resipi"} -> 10
          [] kw \in {"mandeulgi", "joribeop"} -> 9
          [] kw \in {"kkeurigi", "bokkgi", "gupgi", "jaeryo", "yangnyeom"} -> 8
          [] OTHER -> 7]

RECURSIVE SumOver(_, _)
SumOver(f, S) ==
    IF S = {} THEN 0
    ELSE LET x == CHOOSE x \in S : TRUE IN f[x] + SumOver(f, S \ {x})

Min(a, b) == IF a <= b THEN a ELSE b

\* the text a response is scored on: response.lower(), or str(response).lower()
\* for a non-str response (the repr of a dict keeps the answer's words, shows
\* floats such as 0.1 and escapes the newlines)
ScoredText(response) ==
    IF response.type = "str" THEN TextOf(response.text)
    ELSE IF response.type = "dict"
         THEN [TextOf(response.answer) EXCEPT !.numbered = TRUE, !.paragraphs = 1]
         ELSE TextOf("")

\* the scoring without the clamp of relevance at 1.0
QualityOfText_Unclamped(text) ==
    LET sections == {i \in 1..3 : \E kw \in RequiredSections[i] : Occurs(kw, text)}
        matched == {kw \in DOMAIN RelevanceWeight : Occurs(kw, text)}
        n == Cardinality(matched)
        relevance == IF n = 0 THEN 0
                     ELSE (24 * SumOver(RelevanceWeight, matched) + n) \div (2 * n)
        points == (IF text.numbered THEN 40 ELSE 0) + (IF text.bullet THEN 30 ELSE 0)
                  + (IF text.paragraphs >= 3 THEN 30 ELSE 0)
    IN  [completeness |-> (200 * Cardinality(sections) + 3) \div 6,
         relevance |-> relevance,
         structure |-> Min(points, 100)]

\* the body of _calculate_quality_metrics on the lower-cased text: the three
\* scores in hundredths (round(x, 2))
QualityOfText(text) ==
    LET sections == {i \in 1..3 : \E kw \in RequiredSections[i] : Occurs(kw, text)}
        matched == {kw \in DOMAIN RelevanceWeight : Occurs(kw, text)}
        n == Cardinality(matched)
        relevance == IF n = 0 THEN 0
                     ELSE (24 * SumOver(RelevanceWeight, matched) + n) \div (2 * n)
        points == (IF text.numbered THEN 40 ELSE 0) + (IF text.bullet THEN 30 ELSE 0)
                  + (IF text.paragraphs >= 3 THEN 30 ELSE 0)
    IN  [completeness |-> (200 * Cardinality(sections) + 3) \div 6,
         relevance |-> Min(relevance, 100),
         structure |-> Min(points, 100)]

\* _calculate_quality_metrics(response)
CalculateQualityMetrics(response) == QualityOfText(ScoredText(response))

ZeroMetrics == [completeness |-> 0, relevance |-> 0, structure |-> 0]

\* quality_metrics['completeness'] >= 0.5 and quality_metrics['relevance'] >= 0.5
PassesGate(m) == m.completeness >= 50 /\ m.relevance >= 50

\* the scorer applied on its own to answer texts: the keywords a text may
\* contain, and its layout
MaxParagraphs == 3
ScoredWords == {"jaeryo", "yori", "tip", "mat", "resipi", "joribeop"}
ScoredTexts ==
    [words : SUBSET ScoredWords, numbered : BOOLEAN, bullet : BOOLEAN,
     paragraphs : 1..MaxParagraphs]

EmptyText == [words |-> {}, numbered |-> FALSE, bullet |-> FALSE, paragraphs |-> 1]

(***************************************************************************)
(* Questions and retrieved documents.                                      *)
(***************************************************************************)
Questions == {"", " ", "q1"}

\* question.strip()
Strip(q) == IF q = " " THEN "" ELSE q

\* set(query.lower().split())
QueryWords(q) ==
    IF q = "q1" THEN {"kimchi", "resipi"} ELSE {}

\* documents the vector store may return: page_content and its words
DocA == [content |-> "docA", words |-> {"kimchi", "resipi", "jaeryo", "yori"}]

\* outcomes of vectordb.similarity_search(query, k=3)
SearchRaises == [ok |-> FALSE, docs |-> <<>>]
SearchOutcomes == {SearchRaises} \cup {[ok |-> TRUE, docs |-> d] : d \in {<<>>, <<DocA>>}}

\* cooking_keywords of _check_relevance, weights in tenths
CookingWeight ==
    [kw \in {"resipi", "yori", "mandeulgi", "jaeryo", "jori", "kkeurigi",
             "bokkgi", "gupgi", "jjigi", "yangnyeom", "gan", "mat"} |->
        CASE kw \in {"resipi", "yori"} -> 10
          [] kw \in {"jaeryo", "jori"} -> 9
          [] kw \in {"mandeulgi", "yangnyeom"} -> 8
          [] kw \in {"gan", "mat"} -> 6
          [] OTHER -> 7]

\* the score computed by _check_relevance, in thousandths:
\* min(0.7 * keyword_score / max_keyword_score + 0.3 * query_match_score, 1.0)
RelevanceScore(doc, q) ==
    LET keyword_score == SumOver(CookingWeight, DOMAIN CookingWeight \cap doc.words)
        max_keyword_score == SumOver(CookingWeight, DOMAIN CookingWeight)
        qw == QueryWords(q)
        common == Cardinality(qw \cap doc.words)
        match == IF qw = {} THEN 0 ELSE (300 * common) \div Cardinality(qw)
    IN  Min((700 * keyword_score) \div max_keyword_score + match, 1000)

Num(x) == [type |-> "float", v |-> x]
Vec(text) == [type |-> "vector", of |-> text]
Dict(answer, metrics) ==
    [type |-> "dict", answer |-> answer, quality_metrics |-> metrics, source |-> "direct"]

\* bool(value) of a cached value
Truthy(v) ==
    CASE v.type = "None" -> FALSE
      [] v.type = "str" -> v.text # ""
      [] v.type = "float" -> v.v # 0
      [] OTHER -> TRUE

\* f"context_{md5(question)}" and f"relevance_{md5(content + query)}"
ContextKey(q) == <<"context", q>>
RelevanceKey(content, q) == <<"relevance", content, q>>

(***************************************************************************)
(* OptimizedRecipeRAG and AsyncRequestHandler.                             *)
(***************************************************************************)
\* number of coroutines of a batch
NTasks == 2
\* maxsize and ttl of response_cache and embedding_cache, scaled down
EngineCap == 1
EngineTtl == 1
\* largest clock value during a batch
Horizon == 2
\* min_delay = 1.0 / rate_limit, in clock ticks
MinDelay == 1
\* number of synchronous ask() calls
MaxAsks == 2

Tasks == DOMAIN task

\* the two time.time() readings of a membership test followed by a read
Later(t) == {t2 \in t..(t + 1) : t2 = t \/ t2 <= Horizon}

\* a returned dict; a key the dict lacks is None ("none" for source)
Result(q, answer, source, metrics, err, invoked) ==
    [q |-> q, answer |-> answer, source |-> source, quality_metrics |-> metrics,
     error |-> err, invoked |-> invoked]

NoResult == [source |-> "pending"]

\* _check_relevance(content, query) at time t: [ec, score]
CheckRelevance(ec, doc, q, t) ==
    LET key == RelevanceKey(doc.content, q)
        cached == Cache_get(ec, key, t)
    IN  IF cached.value # None
        THEN [ec |-> cached.cache, score |-> cached.value.v]
        ELSE LET final_score == RelevanceScore(doc, q)
             IN  [ec |-> Cache_set(cached.cache, key, Num(final_score), t),
                  score |-> final_score]

\* the loop of _get_context_async over similar_docs: [ec, parts]
RECURSIVE FilterDocs(_, _, _, _, _)
FilterDocs(ec, docs, q, t, parts) ==
    IF docs = <<>> THEN [ec |-> ec, parts |-> parts]
    ELSE LET doc == Head(docs)
         IN  IF doc.content = "" \/ doc.content \in {parts[i] : i \in 1..Len(parts)}
             THEN FilterDocs(ec, Tail(docs), q, t, parts)
             ELSE LET r == CheckRelevance(ec, doc, q, t)
                  IN  FilterDocs(r.ec, Tail(docs), q, t,
                                 IF r.score >= 300 THEN Append(parts, doc.content) ELSE parts)

\* "\n\n".join(context_parts)
RECURSIVE JoinParts(_)
JoinParts(parts) ==
    IF parts = <<>> THEN ""
    ELSE IF Len(parts) = 1 THEN parts[1]
         ELSE parts[1] \o "\n\n" \o JoinParts(Tail(parts))

\* _get_context_async(question): membership test at t1, the rest at t2;
\* search is the outcome of vectordb.similarity_search.
\* [rc, ec, hits, context, searched]
GetContextAsync(rc, ec, hits, q, search, t1, t2) ==
    LET key == ContextKey(q)
        member == Cache_contains(rc, key, t1)
    IN  IF member.value
        THEN LET got == Cache_getitem(member.cache, key, t2)
             IN  [rc |-> got.cache, ec |-> ec, hits |-> hits + 1,
                  context |-> IF got.raised THEN Str("") ELSE got.value,
                  searched |-> FALSE]
        ELSE IF ~search.ok
             THEN [rc |-> member.cache, ec |-> ec, hits |-> hits,
                   context |-> Str(""), searched |-> TRUE]
             ELSE LET f == FilterDocs(ec, search.docs, q, t2, <<>>)
                      joined == JoinParts(f.parts)
                      context == IF joined = "" /\ search.docs # <<>>
                                 THEN Str(search.docs[1].content) ELSE Str(joined)
                  IN  [rc |-> Cache_setitem(member.cache, key, context, t2), ec |-> f.ec,
                       hits |-> hits, context |-> context, searched |-> TRUE]

\* the answer-cache lookup of ask_async and _check_cache: membership test at
\* t1, indexed read at t2.  [rc, hit, raised, value]
LookupAnswer(rc, q, t1, t2) ==
    LET key == Md5(q)
        member == Cache_contains(rc, key, t1)
    IN  IF member.value
        THEN LET got == Cache_getitem(member.cache, key, t2)
             IN  [rc |-> got.cache, hit |-> TRUE, raised |-> got.raised, value |-> got.value]
        ELSE [rc |-> member.cache, hit |-> FALSE, raised |-> FALSE, value |-> None]

\* an except branch that returns the apology without a source
AsyncErrorResult_NoSource(q, invoked) ==
    Result(q, Str("apology"), "none", ZeroMetrics, TRUE, invoked)

\* the except branch of ask_async
AsyncErrorResult(q, invoked) ==
    Result(q, Str("apology"), "error", ZeroMetrics, TRUE, invoked)

\* the except branch of ask: the dict has no 'source' key
SyncErrorResult(q, invoked) ==
    Result(q, Str("apology"), "none", ZeroMetrics, TRUE, invoked)

\* a synchronous path that stores every generated answer
AskStores_Always(metrics) == TRUE

\* whether ask() stores the answer: "cache only good-quality responses"
AskStores(metrics) == PassesGate(metrics)

\* whether ask_async() stores the result: always
AskAsyncStores(metrics) == TRUE

(***************************************************************************)
(* ask(question): synchronous, one atomic step.                            *)
(* gen is the outcome of qa_chain.invoke: "raise" or the answer text.      *)
(***************************************************************************)
Ask(q, gen) ==
    /\ asks < MaxAsks
    /\ asks' = asks + 1
    /\ request_count' = request_count + 1
    /\ LET cached == Cache_get(response_cache, Md5(q), now)
       IN  IF Truthy(cached.value)
           THEN /\ gen = "raise"
                /\ cache_hits' = cache_hits + 1
                /\ response_cache' = cached.cache
                /\ lastAsk' = Result(q, cached.value, "cache",
                                     CalculateQualityMetrics(cached.value), FALSE, {})
                /\ UNCHANGED error_count
           ELSE IF gen = "raise" \/ gen = ""
                THEN /\ error_count' = error_count + 1
                     /\ response_cache' = cached.cache
                     /\ lastAsk' = SyncErrorResult(q, {"retrieve", "generate"})
                     /\ UNCHANGED cache_hits
                ELSE LET quality_metrics == CalculateQualityMetrics(Str(gen))
                     IN  /\ response_cache' =
                                IF AskStores(quality_metrics)
                                THEN Cache_set(cached.cache, Md5(q), Str(gen), now)
                                ELSE cached.cache
                         /\ lastAsk' = Result(q, Str(gen), "direct", quality_metrics,
                                              FALSE, {"retrieve", "generate"})
                         /\ UNCHANGED <<cache_hits, error_count>>
    /\ UNCHANGED <<now, clientVars, embedding_cache, last_request_time, semaphore,
                   max_concurrent, task, batch>>

(***************************************************************************)
(* ask_async(question): from the call to the await of qa_chain.ainvoke,    *)
(* and from the return of ainvoke to the end.                              *)
(***************************************************************************)
\* asyncio.gather schedules the coroutines in the order of its arguments and
\* the event loop runs them first in, first out, as the semaphore serves its
\* waiters: coroutine t takes its first step after the coroutines before it
FirstStepInOrder(t) == \A u \in Tasks : u < t => task[u].pc # "new"

\* coroutine t notes that collaborator c raised during its run
Failing(tk, t, c) == [tk EXCEPT ![t].failed = @ \cup {c}]

\* the collaborators that raised while the context was fetched
FetchFailures(c, search) == IF c.searched /\ ~search.ok THEN {"retrieve"} ELSE {}

Done(tk, t, check, result) ==
    [tk EXCEPT ![t].pc = "done", ![t].check = check, ![t].result = result]

Finish(tk, t, check, result) ==
    /\ task' = Done(tk, t, check, result)
    /\ batch' = [batch EXCEPT !.order = Append(batch.order, t)]

AskAsyncStart(t, search, t2) ==
    /\ batch.phase = "running"
    /\ task[t].entry = "ask_async" /\ task[t].pc = "new"
    /\ FirstStepInOrder(t)
    /\ LET q == task[t].q
       IN  IF Strip(q) = ""
           THEN /\ search = SearchRaises /\ t2 = now
                /\ Finish(task, t, "none", Result(q, Str("prompt"), "empty", ZeroMetrics, FALSE, {}))
                /\ UNCHANGED <<now, response_cache, embedding_cache, request_count,
                               error_count, cache_hits>>
           ELSE LET look == LookupAnswer(response_cache, q, now, t2)
                IN  /\ request_count' = request_count + 1
                    /\ now' = t2
                    /\ IF look.hit
                       THEN /\ search = SearchRaises
                            /\ cache_hits' = cache_hits + 1
                            /\ response_cache' = look.rc
                            /\ UNCHANGED embedding_cache
                            /\ IF look.raised
                               THEN /\ error_count' = error_count + 1
                                    /\ Finish(task, t, "hit", AsyncErrorResult(q, {}))
                               ELSE /\ UNCHANGED error_count
                                    /\ Finish(task, t, "hit",
                                         IF look.value.type = "dict"
                                         THEN Result(q, Str(look.value.answer), "cache",
                                                     look.value.quality_metrics, FALSE, {})
                                         ELSE Result(q, look.value, "cache",
                                                     CalculateQualityMetrics(look.value),
                                                     FALSE, {}))
                       ELSE LET c == GetContextAsync(look.rc, embedding_cache, cache_hits,
                                                     q, search, t2, t2)
                            IN  /\ response_cache' = c.rc
                                /\ embedding_cache' = c.ec
                                /\ cache_hits' = c.hits
                                /\ task' = [task EXCEPT ![t].pc = "generate",
                                              ![t].check = "miss",
                                              ![t].failed = FetchFailures(c, search),
                                              ![t].invoked =
                                                  (IF c.searched THEN {"retrieve"} ELSE {})
                                                  \cup {"generate"}]
                                /\ UNCHANGED <<error_count, batch>>
    /\ UNCHANGED <<clientVars, last_request_time, semaphore, max_concurrent,
                   lastAsk, asks>>

AskAsyncFinish(t, gen) ==
    /\ batch.phase = "running"
    /\ task[t].entry = "ask_async" /\ task[t].pc = "generate"
    /\ LET q == task[t].q
       IN  IF gen = "raise"
           THEN /\ error_count' = error_count + 1
                /\ Finish(Failing(task, t, "generate"), t, "miss",
                          AsyncErrorResult(q, task[t].invoked))
                /\ UNCHANGED response_cache
           ELSE LET quality_metrics == CalculateQualityMetrics(Str(gen))
                IN  /\ response_cache' =
                           IF AskAsyncStores(quality_metrics)
                           THEN Cache_setitem(response_cache, Md5(q),
                                              Dict(gen, quality_metrics), now)
                           ELSE response_cache
                    /\ Finish(task, t, "miss", Result(q, Str(gen), "direct",
                                                      quality_metrics, FALSE,
                                                      task[t].invoked))
                    /\ UNCHANGED error_count
    /\ UNCHANGED <<now, clientVars, embedding_cache, request_count, cache_hits,
                   last_request_time, semaphore, max_concurrent, lastAsk, asks>>

(***************************************************************************)
(* AsyncRequestHandler.process_request(request): one action per stretch of *)
(* code between two suspensions of the coroutine.                          *)
(***************************************************************************)
\* the except branch of process_request: {"error": ..., "status": "error"}
HandlerErrorResult(q, invoked) == Result(q, None, "none", None, TRUE, invoked)

\* a gate that returns its slot only on the success path
HandlerReturn_KeepSlotOnError(tk, t, check, result, ok, at, held) ==
    /\ task' = Done(tk, t, check, result)
    /\ batch' = [batch EXCEPT !.order = Append(batch.order, t)]
    /\ semaphore' = IF result.error THEN held ELSE held + 1
    /\ last_request_time' = IF ok THEN at ELSE last_request_time

\* a gate that never gives its slot back
HandlerReturn_NoRelease(tk, t, check, result, ok, at, held) ==
    /\ task' = Done(tk, t, check, result)
    /\ batch' = [batch EXCEPT !.order = Append(batch.order, t)]
    /\ semaphore' = held
    /\ last_request_time' = IF ok THEN at ELSE last_request_time

\* leaving "async with self.semaphore" at time at, held being the value of
\* the semaphore while the slot is taken; ok: _handle_request returned, so
\* that _last_request_time was set before the return
HandlerReturn(tk, t, check, result, ok, at, held) ==
    /\ task' = Done(tk, t, check, result)
    /\ batch' = [batch EXCEPT !.order = Append(batch.order, t)]
    /\ semaphore' = held + 1
    /\ last_request_time' = IF ok THEN at ELSE last_request_time

\* _handle_request from its call to the await of asyncio.gather
EnterHandleRequest(t, t2, held) ==
    LET q == task[t].q
        tk == [task EXCEPT ![t].started = now, ![t].wake = 0]
    IN  IF q = ""
        THEN /\ t2 = now
             /\ HandlerReturn(tk, t, "none", HandlerErrorResult(q, {}), FALSE, now, held)
             /\ UNCHANGED <<now, response_cache, cache_hits>>
        ELSE LET look == LookupAnswer(response_cache, q, now, t2)
             IN  /\ now' = t2
                 /\ response_cache' = look.rc
                 /\ IF look.hit
                    THEN /\ cache_hits' = cache_hits + 1
                         /\ IF look.raised \/ look.value.type # "dict"
                            THEN HandlerReturn(tk, t, "hit", HandlerErrorResult(q, {}),
                                               FALSE, t2, held)
                            ELSE HandlerReturn(tk, t, "hit",
                                     Result(q, Str(look.value.answer), "cache",
                                            look.value.quality_metrics, FALSE, {}),
                                     TRUE, t2, held)
                    ELSE /\ t2 = now
                         /\ task' = [tk EXCEPT ![t].pc = "fetch", ![t].check = "miss"]
                         /\ semaphore' = held
                         /\ UNCHANGED <<cache_hits, batch, last_request_time>>

\* acquire the semaphore and read the clock and _last_request_time
HandlerAdmit(t, t2) ==
    /\ batch.phase = "running"
    /\ task[t].entry = "process_request" /\ task[t].pc = "new"
    /\ FirstStepInOrder(t)
    /\ semaphore > 0
    /\ LET time_since_last == now - last_request_time
       IN  IF time_since_last < MinDelay
           THEN /\ t2 = now
                /\ semaphore' = semaphore - 1
                /\ task' = [task EXCEPT ![t].pc = "sleep",
                                        ![t].wake = now + (MinDelay - time_since_last)]
                /\ UNCHANGED <<now, response_cache, cache_hits, batch, last_request_time>>
           ELSE EnterHandleRequest(t, t2, semaphore - 1)
    /\ UNCHANGED <<clientVars, embedding_cache, request_count, error_count,
                   max_concurrent, lastAsk, asks>>

\* asyncio.sleep(min_delay - time_since_last) is over
HandlerWake(t, t2) ==
    /\ batch.phase = "running"
    /\ task[t].entry = "process_request" /\ task[t].pc = "sleep"
    /\ now >= task[t].wake
    /\ EnterHandleRequest(t, t2, semaphore)
    /\ UNCHANGED <<clientVars, embedding_cache, request_count, error_count,
                   max_concurrent, lastAsk, asks>>

\* the two coroutines of asyncio.gather, run one after the other:
\* _get_context_async, then _compute_embedding_async up to asyncio.to_thread
HandlerFetch(t, search) ==
    /\ batch.phase = "running"
    /\ task[t].entry = "process_request" /\ task[t].pc = "fetch"
    /\ \E c \in {GetContextAsync(response_cache, embedding_cache, cache_hits, task[t].q,
                                  search, now, now)} :
       LET q == task[t].q
           look == LookupAnswer(c.ec, q, now, now)
           invoked == IF c.searched THEN {"retrieve"} ELSE {}
       IN  /\ response_cache' = c.rc
           /\ embedding_cache' = look.rc
           /\ IF look.hit
              THEN /\ cache_hits' = c.hits + 1
                   /\ IF look.raised
                      THEN HandlerReturn([task EXCEPT ![t].failed = FetchFailures(c, search)],
                                         t, "miss", HandlerErrorResult(q, invoked),
                                         FALSE, now, semaphore)
                      ELSE /\ task' = [task EXCEPT ![t].pc = "generate",
                                         ![t].failed = FetchFailures(c, search),
                                         ![t].invoked = invoked \cup {"generate"}]
                           /\ UNCHANGED <<batch, semaphore, last_request_time>>
              ELSE /\ cache_hits' = c.hits
                   /\ task' = [task EXCEPT ![t].pc = "embed",
                                           ![t].failed = FetchFailures(c, search),
                                           ![t].invoked = invoked \cup {"embed"}]
                   /\ UNCHANGED <<batch, semaphore, last_request_time>>
    /\ UNCHANGED <<now, clientVars, request_count, error_count, max_concurrent, lastAsk,
                   asks>>

\* embeddings.embed_query returns from its thread (ok) or raises
HandlerEmbedDone(t, ok) ==
    /\ batch.phase = "running"
    /\ task[t].entry = "process_request" /\ task[t].pc = "embed"
    /\ IF ok
       THEN /\ embedding_cache' = Cache_setitem(embedding_cache, Md5(task[t].q),
                                                Vec(task[t].q), now)
            /\ task' = [task EXCEPT ![t].pc = "generate",
                                    ![t].invoked = task[t].invoked \cup {"generate"}]
            /\ UNCHANGED <<batch, semaphore, last_request_time>>
       ELSE /\ HandlerReturn(Failing(task, t, "embed"), t, "miss",
                             HandlerErrorResult(task[t].q, task[t].invoked),
                             FALSE, now, semaphore)
            /\ UNCHANGED embedding_cache
    /\ UNCHANGED <<now, response_cache, clientVars, request_count, error_count,
                   cache_hits, max_concurrent, lastAsk, asks>>

\* qa_chain.ainvoke returns the answer text gen or raises
HandlerFinish(t, gen) ==
    /\ batch.phase = "running"
    /\ task[t].entry = "process_request" /\ task[t].pc = "generate"
    /\ LET q == task[t].q
       IN  IF gen = "raise"
           THEN HandlerReturn(Failing(task, t, "generate"), t, "miss",
                              HandlerErrorResult(q, task[t].invoked),
                              FALSE, now, semaphore)
           ELSE HandlerReturn(task, t, "miss",
                              Result(q, Str(gen), "none",
                                     CalculateQualityMetrics(Str(gen)), FALSE,
                                     task[t].invoked),
                              TRUE, now, semaphore)
    /\ UNCHANGED <<now, response_cache, clientVars, embedding_cache, request_count,
                   error_count, cache_hits, max_concurrent, lastAsk, asks>>

\* a join under one batch-level try/except: the first failure replaces every
\* result of the batch
GatherResults_AbortOnError(tk, order) ==
    IF \E i \in 1..Len(tk) : tk[i].result.error
    THEN LET f == CHOOSE i \in 1..Len(tk) : tk[i].result.error
         IN  [i \in 1..Len(tk) |-> tk[f].result]
    ELSE [i \in 1..Len(tk) |-> tk[i].result]

\* a join that lists the results as the coroutines complete
GatherResults_ByCompletion(tk, order) == [i \in 1..Len(order) |-> tk[order[i]].result]

\* asyncio.gather(*tasks): the list of results, by position of the awaitable
GatherResults(tk, order) == [i \in 1..Len(tk) |-> tk[i].result]

\* process_batch returns once every coroutine is done
BatchReturn ==
    /\ batch.phase = "running"
    /\ \A t \in Tasks : task[t].pc = "done"
    /\ batch' = [batch EXCEPT !.phase = "returned",
                              !.results = GatherResults(task, batch.order),
                              !.finished = now]
    /\ UNCHANGED <<now, response_cache, clientVars, embedding_cache, request_count,
                   error_count, cache_hits, last_request_time, semaphore,
                   max_concurrent, task, lastAsk, asks>>

\* the clock advances between two steps of the event loop
EngineTick ==
    /\ now < Horizon
    /\ now' = now + 1
    /\ UNCHANGED <<response_cache, clientVars, engineVars>>

NewTask(entry, q) ==
    [entry |-> entry, q |-> q, pc |-> "new", wake |-> 0,
     started |-> -1, check |-> "none", invoked |-> {}, failed |-> {},
     result |-> NoResult]

InitEngineWith(entry, widths, n, questions) ==
    /\ now = 0
    /\ response_cache = NewCache(EngineCap, EngineTtl)
    /\ embedding_cache = NewCache(EngineCap, EngineTtl)
    /\ lastOp = NoOp
    /\ written = [x \in CacheKeys |-> None]
    /\ fill = NoFill
    /\ request_count = 0 /\ error_count = 0 /\ cache_hits = 0
    /\ last_request_time = 0
    /\ max_concurrent \in widths
    /\ semaphore = max_concurrent
    /\ \E qs \in [1..n -> questions] : task = [t \in 1..n |-> NewTask(entry, qs[t])]
    /\ batch = [entry |-> entry, phase |-> "running", started |-> 0, order |-> <<>>,
                results |-> <<>>, finished |-> 0]
    /\ lastAsk = NoResult
    /\ asks = 0

\* OptimizedRecipeRAG.process_batch(questions): NTasks gathered ask_async calls
InitEngine == InitEngineWith("ask_async", {1}, NTasks, Questions)

NextEngine ==
    \/ \E t \in Tasks, search \in SearchOutcomes, t2 \in Later(now) :
           AskAsyncStart(t, search, t2)
    \/ \E t \in Tasks, gen \in {"raise"} \cup AnswerTexts : AskAsyncFinish(t, gen)
    \/ BatchReturn
    \/ EngineTick

SpecEngine == InitEngine /\ [][NextEngine]_vars

\* synchronous ask() calls made around one awaited ask_async call
InitAsk == InitEngineWith("ask_async", {1}, 1, Questions)

NextAsk ==
    \/ \E q \in Questions, gen \in {"raise"} \cup AnswerTexts : Ask(q, gen)
    \/ NextEngine

SpecAsk == InitAsk /\ [][NextAsk]_vars

\* every unfinished coroutine waits for its timer or for a slot that only a
\* sleeping coroutine can give back
OnlyTimersPending ==
    /\ \E t \in Tasks : task[t].pc = "sleep"
    /\ \A t \in Tasks :
           \/ task[t].pc = "done"
           \/ task[t].pc = "sleep" /\ now < task[t].wake
           \/ task[t].pc = "new" /\ semaphore = 0

\* the clock advances up to Horizon, and further when only the timers of
\* asyncio.sleep can let the batch go on
GateTick ==
    /\ now < Horizon \/ OnlyTimersPending
    /\ now' = now + 1
    /\ UNCHANGED <<response_cache, clientVars, engineVars>>

\* what qa_chain.ainvoke can hand to the handler, which looks at the answer
\* only to score it: a sectioned answer or an empty one
HandlerAnswers == {"good", ""}

\* the questions of the requests: _handle_request tells a question from
\* none ("if not question") and nothing else
GateQuestions == {"", "q1"}

\* AsyncRequestHandler.process_batch(requests), max_concurrent 1 or 2
InitGate == InitEngineWith("process_request", {1, 2}, NTasks, GateQuestions)

NextGate ==
    \/ \E t \in Tasks, t2 \in Later(now) : HandlerAdmit(t, t2)
    \/ \E t \in Tasks, t2 \in Later(now) : HandlerWake(t, t2)
    \/ \E t \in Tasks, search \in SearchOutcomes : HandlerFetch(t, search)
    \/ \E t \in Tasks, ok \in BOOLEAN : HandlerEmbedDone(t, ok)
    \/ \E t \in Tasks, gen \in {"raise"} \cup HandlerAnswers : HandlerFinish(t, gen)
    \/ BatchReturn
    \/ GateTick

SpecGate == InitGate /\ [][NextGate]_vars

\* the event loop keeps running: while a coroutine can take a step, a
\* collaborator can return or a timer can fire, one of them does
SpecGateLive == InitGate /\ [][NextGate]_vars /\ WF_vars(NextGate)

(***************************************************************************)
(* The scorer on its own: _calculate_quality_metrics applied to any text   *)
(* and to any response value; lastAsk holds the last call and its result.  *)
(***************************************************************************)
\* _calculate_quality_metrics(response) with a str response of text `text`
ScoreText(text) ==
    /\ lastAsk' = [source |-> "metrics", input |-> "str", text |-> text,
                   quality_metrics |-> QualityOfText(text)]
    /\ UNCHANGED <<now, response_cache, clientVars, embedding_cache, request_count,
                   error_count, cache_hits, last_request_time, semaphore,
                   max_concurrent, task, batch, asks>>

\* _calculate_quality_metrics(response) with any response value
ScoreResponse(response) ==
    /\ lastAsk' = [source |-> "metrics", input |-> response.type,
                   text |-> ScoredText(response),
                   quality_metrics |-> CalculateQualityMetrics(response)]
    /\ UNCHANGED <<now, response_cache, clientVars, embedding_cache, request_count,
                   error_count, cache_hits, last_request_time, semaphore,
                   max_concurrent, task, batch, asks>>

\* values a caller may pass as response
ScoredResponses ==
    {None} \cup {Str(a) : a \in AnswerTexts}
           \cup {Dict(a, QualityOfText(TextOf(a))) : a \in AnswerTexts}

NextMetrics ==
    \/ \E text \in ScoredTexts : ScoreText(text)
    \/ \E response \in ScoredResponses : ScoreResponse(response)

SpecMetrics == InitCache /\ [][NextMetrics]_vars

(***************************************************************************)
(* Properties of OptimizedCache (SpecCache).                               *)
(***************************************************************************)

\* C1: get(k) returns the value of the most recent set(k, v) exactly when that
\* write is younger than ttl and was neither evicted nor cleared; in every
\* other case get(k) reports a miss (None).
C1_GetReturnsLiveWrite ==
    lastOp.op = "get" =>
        LET w == written[lastOp.key]
        IN  IF w # None /\ now - w.at < response_cache.ttl
            THEN lastOp.value = w.value
            ELSE lastOp.value = None

\* a get has just returned a stored value
C1_Witness ==
    /\ lastOp.op = "get"
    /\ lastOp.value # None
    /\ written[lastOp.key] # None

\* C2: from an empty cache of capacity C >= 1, after C+1 distinct keys were
\* written one after another exactly C entries are stored and the
\* first-written key is absent.
C2_FillLeavesCapacity ==
    (fill.ok /\ Len(fill.keys) = response_cache.maxsize + 1) =>
        /\ Len(response_cache.cache) = response_cache.maxsize
        /\ fill.keys[1] \notin KeysOf(response_cache.cache)

\* C+1 distinct keys have been written into an empty cache
C2_Witness ==
    /\ fill.ok
    /\ Len(fill.keys) = response_cache.maxsize + 1
    /\ lastOp.op \in {"set", "setitem"}

EntrySet(es) == {es[i] : i \in 1..Len(es)}

\* C3: a write that makes the number of stored entries exceed the capacity
\* removes exactly one entry, one of smallest timestamp among all stored
\* entries (expired ones and the new one included), and leaves the others.
C3_WriteStep ==
    lastOp'.op \in {"set", "setitem"} =>
        LET k == lastOp'.key
            kept == {e \in EntrySet(response_cache.cache) : e.key # k}
        IN  \E v \in CacheValues :
                LET all == kept \cup {Entry(k, v, now)}
                IN  Cardinality(all) > response_cache.maxsize =>
                        \E e \in all :
                            /\ \A f \in all : e.timestamp <= f.timestamp
                            /\ EntrySet(response_cache'.cache) = all \ {e}
                            /\ Len(response_cache'.cache) = Cardinality(all) - 1

InPipeline == {t \in Tasks : task[t].pc \in {"fetch", "embed", "generate"}}

\* C4: with more queries issued at once than max_concurrent, at no instant
\* are more than max_concurrent pipeline bodies executing, for every entry
\* point that runs queries concurrently, the batch call included.
C4_GateWidth == Cardinality(InPipeline) <= max_concurrent

Started == {t \in Tasks : task[t].started >= 0}

\* C5: any two admitted runs of one gate start executing the protected
\* function at least 1/rate_limit apart, in every interleaving.
C5_Pacing ==
    \A t, u \in Started :
        t # u => \/ task[t].started - task[u].started >= MinDelay
                 \/ task[u].started - task[t].started >= MinDelay

\* C6: N queries issued back-to-back (N gathered ask_async calls, each with
\* a question to answer) under rate_limit R take at least (N-1)/R from the
\* first call to the last result.
C6_EndToEndPacing ==
    (batch.phase = "returned" /\ \A t \in Tasks : Strip(task[t].q) # "") =>
        batch.finished - batch.started >= (Len(task) - 1) * MinDelay

\* C7: a query whose cache check finds an unexpired entry for the question's
\* fingerprint ends with source=cache and invokes no retrieval, embedding or
\* generation collaborator.
C7_CacheHitFastPath ==
    \A t \in Tasks :
        (task[t].pc = "done" /\ task[t].check = "hit") =>
            /\ task[t].result.source = "cache"
            /\ task[t].result.invoked = {}

\* the answer entries of the answer cache: those stored under md5(question)
AnswerEntries ==
    {e \in EntrySet(response_cache.cache) : e.key \in {Md5(q) : q \in Questions}}

\* C8: a generated answer is in the answer cache only if its completeness and
\* its relevance are at least 0.5, and no call returns a below-gate answer
\* with source=cache.
C8_QualityGate ==
    /\ \A e \in AnswerEntries :
           PassesGate(IF e.value.type = "dict" THEN e.value.quality_metrics
                      ELSE CalculateQualityMetrics(e.value))
    /\ \A t \in Tasks :
           (task[t].pc = "done" /\ task[t].result.source = "cache") =>
               PassesGate(task[t].result.quality_metrics)

Sources == {"cache", "direct", "empty", "error"}

\* C9: every result returned by ask, by ask_async and by the batch call has a
\* source field that is one of cache, direct, empty, error.
C9_WellFormedResult ==
    /\ asks > 0 => lastAsk.source \in Sources
    /\ batch.phase = "returned" =>
           \A i \in 1..Len(batch.results) : batch.results[i].source \in Sources

\* C10: the batch call on N questions returns exactly N results and the
\* result at position i is the result of question i, whatever order the
\* runs complete in.
C10_BatchOrder ==
    batch.phase = "returned" =>
        /\ Len(batch.results) = Len(task)
        /\ \A i \in 1..Len(task) :
               /\ batch.results[i].q = task[i].q
               /\ batch.results[i] = task[i].result

\* a batch has returned whose runs completed in another order than the
\* input order and produced different results
C10_Witness ==
    /\ batch.phase = "returned"
    /\ batch.order[1] # 1
    /\ batch.results[1] # batch.results[2]

EmptyPathFrame == <<response_cache, embedding_cache, error_count, cache_hits>>

\* C12: for an empty or whitespace-only question both ask and ask_async
\* return source=empty, invoke no collaborator, neither read nor write a
\* cache and leave error_count and cache_hits unchanged.
C12_EmptyStep ==
    /\ (asks' = asks + 1 /\ Strip(lastAsk'.q) = "") =>
           /\ lastAsk'.source = "empty"
           /\ lastAsk'.invoked = {}
           /\ UNCHANGED EmptyPathFrame
    /\ \A t \in Tasks :
           (task[t].entry = "ask_async" /\ Strip(task[t].q) = ""
            /\ task[t].pc = "new" /\ task'[t].pc # "new") =>
               /\ task'[t].pc = "done"
               /\ task'[t].result.source = "empty"
               /\ task'[t].result.invoked = {}
               /\ UNCHANGED EmptyPathFrame

C12_EmptyFastPath == [][C12_EmptyStep]_vars

\* the result of the Error state
IsErrorResult(r) == r.source = "error" /\ r.quality_metrics = ZeroMetrics /\ r.error

C13_FailureStep ==
    \A t \in Tasks :
        /\ (task[t].pc = "generate" /\ task'[t].pc = "done") =>
               IF "generate" \in task'[t].failed
               THEN /\ IsErrorResult(task'[t].result)
                    /\ error_count' = error_count + 1
               ELSE /\ task'[t].result.source = "direct"
                    /\ error_count' = error_count
        /\ (task[t].pc = "new" /\ "retrieve" \in task'[t].failed) =>
               /\ task'[t].pc = "generate"
               /\ error_count' = error_count

AnswerStored(q) ==
    \E e \in EntrySet(response_cache.cache) :
        /\ e.key = Md5(q)
        /\ now - e.timestamp < response_cache.ttl

\* C14: after ask_async(q) returned a directly generated result for a
\* non-empty q, a following ask_async(q) issued within ttl, the entry being
\* neither evicted nor cleared meanwhile, returns source=cache.
C14_RepeatStep ==
    \A t, u \in Tasks :
        (/\ t # u
         /\ task[u].pc = "done" /\ task[u].result.source = "direct"
         /\ task[u].q = task[t].q /\ Strip(task[t].q) # ""
         /\ AnswerStored(task[t].q)
         /\ task[t].pc = "new" /\ task'[t].pc # "new") =>
            /\ task'[t].pc = "done"
            /\ task'[t].result.source = "cache"

C14_RepeatHit == [][C14_RepeatStep]_vars

\* the answer text of a cached answer, whichever path stored it
CachedAnswerText(v) == IF v.type = "dict" THEN v.answer ELSE v.text

\* a returned result that carries an empty generated answer as a success
EmptyAnswerAccepted(r) == r.answer = Str("") /\ ~r.error

\* C15: an empty generated answer is a failure on every query path: no
\* result carries it with source=direct, and it is never written to the
\* answer cache.
C15_EmptyAnswerIsFailure ==
    /\ asks > 0 => ~EmptyAnswerAccepted(lastAsk)
    /\ \A t \in Tasks : task[t].pc = "done" => ~EmptyAnswerAccepted(task[t].result)
    /\ \A e \in AnswerEntries : CachedAnswerText(e.value) # ""

\* the runs of the protected function that ended in the handler's error value
FailedRuns == {t \in Tasks : task[t].pc = "done" /\ task[t].result.error}

\* C16: once every run has finished, by a return or by a failure, the
\* number of free slots equals max_concurrent again; a slot is held only by
\* a run that was admitted and has not finished.
C16_SlotsReleased ==
    /\ semaphore = max_concurrent
                   - Cardinality({t \in Tasks : task[t].pc \in {"sleep", "fetch", "embed", "generate"}})
    /\ (\A t \in Tasks : task[t].pc = "done") => semaphore = max_concurrent

C16_Witness ==
    /\ \A t \in Tasks : task[t].pc = "done"
    /\ \E t, u \in Tasks : /\ t \in FailedRuns /\ task[t].failed # {}
                           /\ u \notin FailedRuns /\ task[u].check = "miss"
    /\ semaphore = max_concurrent

\* the value stored under key k, whether expired or not
StoredValue(c, k) == c.cache[IndexOfKey(c.cache, k)].value

\* C17: "k in cache" is true exactly when get(k) returns the stored value,
\* and leaves the cache as get(k) leaves it: a stored but expired entry is
\* deleted and the answer is false; an absent key gives false and changes
\* nothing.
C17_ContainsMatchesGet ==
    \A k \in CacheKeys :
        LET c == Cache_contains(response_cache, k, now)
            g == Cache_get(response_cache, k, now)
            stored == k \in KeysOf(response_cache.cache)
        IN  /\ c.cache = g.cache
            /\ c.value <=> (stored /\ g.cache = response_cache
                                   /\ g.value = StoredValue(response_cache, k))
            /\ ~stored => (~c.value /\ c.cache = response_cache)
            /\ (stored /\ ~c.value) =>
                   /\ k \notin KeysOf(c.cache.cache)
                   /\ KeysOf(c.cache.cache) = KeysOf(response_cache.cache) \ {k}
                   /\ g.value = None

\* a membership test has just deleted an expired entry and answered false
C17_Witness ==
    /\ lastOp.op = "contains" /\ ~lastOp.value
    /\ written[lastOp.key] # None
    /\ now - written[lastOp.key].at >= response_cache.ttl
    /\ lastOp.key \notin KeysOf(response_cache.cache)
    /\ Cache_get(response_cache, lastOp.key, now).value = None

\* the keys for which "k in cache" answers true at time t
LiveKeys(c, t) == {k \in CacheKeys : Cache_contains(c, k, t).value}

\* C18: len(), keys(), items() and values() report exactly the entries with
\* now - written_at < ttl: len() is the number of keys for which contains is
\* true, the listings hold those keys and their values, and an expired entry
\* that is still stored is neither counted nor listed.
C18_ListingsAreLive ==
    LET live == LiveKeys(response_cache, now)
        items == Cache_items(response_cache, now)
        values == Cache_values(response_cache, now)
    IN  /\ Cache_len(response_cache, now) = Cardinality(live)
        /\ Cache_keys(response_cache, now) = live
        /\ Len(items) = Cardinality(live) /\ Len(values) = Cardinality(live)
        /\ {items[i][1] : i \in 1..Len(items)} = live
        /\ \A i \in 1..Len(items) :
               /\ items[i][2] = Cache_get(response_cache, items[i][1], now).value
               /\ values[i] = items[i][2]
        /\ lastOp.op = "len" =>
               /\ lastOp.value = Cardinality(live) /\ lastOp.keys = live
               /\ lastOp.items = items /\ lastOp.values = values

\* a listing was taken while an expired entry was still stored, next to a
\* live one
C18_Witness ==
    /\ lastOp.op = "len" /\ lastOp.value = 1
    /\ Len(response_cache.cache) = 2
    /\ Len(lastOp.items) = 1 /\ Len(lastOp.values) = 1

\* this step is a get on a key whose entry is stored and has expired
GetOnExpired ==
    /\ lastOp'.op = "get" /\ now' = now
    /\ lastOp'.key \in KeysOf(response_cache.cache)
    /\ now - response_cache.cache[IndexOfKey(response_cache.cache, lastOp'.key)].timestamp
           >= response_cache.ttl

\* C19 as stated: a get on a just-expired key removes the entry, and len()
\* after the get is smaller than len() just before it.
C19_LenStep ==
    GetOnExpired =>
        /\ lastOp'.key \notin KeysOf(response_cache'.cache)
        /\ Cache_len(response_cache', now') < Cache_len(response_cache, now)

C19_LenDecreases == [][C19_LenStep]_vars

\* C19 amended: a get on an expired key returns the default and removes the
\* entry from the stored entries, whose number decreases by one; len(), which
\* counts only unexpired entries, did not count it before and is unchanged.
C19_StoredStep ==
    GetOnExpired =>
        /\ lastOp'.value = None
        /\ lastOp'.key \notin KeysOf(response_cache'.cache)
        /\ Len(response_cache'.cache) = Len(response_cache.cache) - 1
        /\ Cache_len(response_cache', now') = Cache_len(response_cache, now)

C19_StoredDecreases == [][C19_StoredStep]_vars

\* a get has just removed an expired entry while a live entry stays stored
C19_Witness ==
    /\ lastOp.op = "get" /\ lastOp.removed /\ lastOp.value = None
    /\ lastOp.key \notin KeysOf(response_cache.cache)
    /\ Cache_len(response_cache, now) = 1

\* this step of task t is the context retrieval of ask_async: it fetches (or
\* reads) the context and writes no answer
ContextStepOf(t) ==
    /\ task[t].entry = "ask_async"
    /\ task[t].pc = "new" /\ task'[t].pc = "generate"

\* C20: the answer cache and the context/embedding cache are independent:
\* writing a retrieved context, an embedding or a relevance score never adds
\* an entry to the answer cache and never evicts a cached answer.
C20_ContextWriteStep ==
    \A t \in Tasks :
        ContextStepOf(t) =>
            /\ KeysOf(response_cache'.cache) \subseteq KeysOf(response_cache.cache)
            /\ \A e \in AnswerEntries :
                   now' - e.timestamp < response_cache.ttl
                       => e \in EntrySet(response_cache'.cache)

C20_IndependentCaches == [][C20_ContextWriteStep]_vars

(***************************************************************************)
(* Properties of the scorer (SpecMetrics).                                 *)
(***************************************************************************)

\* C21: for every answer text each of completeness, relevance and structure
\* lies in [0, 1] (hundredths 0..100), completeness is k/3 for k matched
\* categories, and for an empty answer text all three are 0.
C21_MetricsInRange ==
    lastAsk.source = "metrics" =>
        LET m == lastAsk.quality_metrics IN
        /\ m.completeness \in {0, 33, 67, 100}
        /\ m.relevance \in 0..100
        /\ m.structure \in 0..100
        /\ lastAsk.text = EmptyText => m = ZeroMetrics

\* a text whose matched keywords average 1.0, scored 1.2 before the clamp,
\* with every layout mark
C21_Witness ==
    /\ lastAsk.source = "metrics" /\ lastAsk.input = "str"
    /\ lastAsk.text.words = {"yori", "resipi"}
    /\ lastAsk.text.numbered /\ lastAsk.text.bullet /\ lastAsk.text.paragraphs >= 3
    /\ lastAsk.quality_metrics = [completeness |-> 33, relevance |-> 100, structure |-> 100]

(***************************************************************************)
(* Properties of the pipeline steps.                                       *)
(***************************************************************************)

\* this step of task t is the call of qa_chain.ainvoke
GenerationInvoked(t) == task[t].pc # "generate" /\ task'[t].pc = "generate"

\* C22: on an answer-cache miss generation is invoked only after both
\* fetches have completed: the context was retrieved (or read from its
\* cache) and the question's embedding was computed (or read from its
\* cache), so that it is in the embedding cache when generation starts.
C22_JoinStep ==
    \A t \in Tasks :
        GenerationInvoked(t) =>
            /\ \/ "retrieve" \in task'[t].invoked
               \/ ContextKey(task[t].q) \in KeysOf(response_cache.cache)
            /\ Md5(task[t].q) \in KeysOf(embedding_cache'.cache)

C22_FetchJoin == [][C22_JoinStep]_vars

\* this step of task t is the start of the protected function, after the
\* pacing wait
StartsRun(t) == task[t].started < 0 /\ task'[t].started >= 0

\* C23: every admitted run, after its pacing wait and before the protected
\* function executes, sets the shared last start time to its own start
\* time, also when the protected function then fails.
C23_StartStep ==
    \A t \in Tasks : StartsRun(t) => last_request_time' = task'[t].started

C23_LastStartUpdated == [][C23_StartStep]_vars

(***************************************************************************)
(* Further properties of OptimizedCache (SpecCache).                       *)
(***************************************************************************)

SyncGenerated == asks' = asks + 1 /\ lastAsk'.source = "direct"

\* this step of task t is the end of an ask_async() that generated an answer
AsyncGenerated(t) ==
    /\ task[t].entry = "ask_async"
    /\ task[t].pc = "generate" /\ task'[t].pc = "done"
    /\ task'[t].result.source = "direct"

\* the answer cache after the step holds the answer text for question q,
\* written by this step
StoredNow(q, answer) ==
    \E e \in EntrySet(response_cache'.cache) :
        /\ e.key = Md5(q) /\ e.timestamp = now
        /\ CachedAnswerText(e.value) = answer.text

\* C25 as stated: the synchronous path writes every generated answer into
\* the answer cache whatever its scores, and the awaitable path writes it
\* only if it passes the quality gate.
C25_StatedStep ==
    /\ SyncGenerated => StoredNow(lastAsk'.q, lastAsk'.answer)
    /\ \A t \in Tasks :
           AsyncGenerated(t) =>
               (StoredNow(task[t].q, task'[t].result.answer)
                    <=> PassesGate(task'[t].result.quality_metrics))

C25_SyncCachesAlways == [][C25_StatedStep]_vars

\* C25 amended: the synchronous path writes a generated answer only if its
\* completeness and relevance are at least 0.5, and the awaitable path
\* writes every generated answer whatever its scores.
C25_CodeStep ==
    /\ SyncGenerated =>
           IF PassesGate(lastAsk'.quality_metrics)
           THEN StoredNow(lastAsk'.q, lastAsk'.answer)
           ELSE Md5(lastAsk'.q) \notin KeysOf(response_cache'.cache)
    /\ \A t \in Tasks :
           AsyncGenerated(t) => StoredNow(task[t].q, task'[t].result.answer)

C25_AsyncCachesAlways == [][C25_CodeStep]_vars

\* ask() returned a below-gate answer and stored nothing, then ask_async()
\* generated a below-gate answer and stored it
C25_Witness ==
    /\ lastAsk.source = "direct" /\ ~PassesGate(lastAsk.quality_metrics)
    /\ \E t \in Tasks :
           /\ task[t].pc = "done" /\ task[t].result.source = "direct"
           /\ ~PassesGate(task[t].result.quality_metrics)
    /\ \E e \in AnswerEntries :
           e.value.type = "dict" /\ ~PassesGate(e.value.quality_metrics)
    /\ \A e \in AnswerEntries : e.value.type = "dict"

\* C26: a set(k, v) or cache[k] = v followed at once by get(k) returns v:
\* the eviction the write triggers never removes the entry the write has
\* just stored, also when several entries share one timestamp.
C26_ReadYourWrite ==
    lastOp.op \in {"set", "setitem"} =>
        /\ lastOp.key \notin lastOp.evicted
        /\ written[lastOp.key] # None /\ written[lastOp.key].at = now
        /\ Cache_get(response_cache, lastOp.key, now).value = written[lastOp.key].value
        /\ Cache_getitem(response_cache, lastOp.key, now).value = written[lastOp.key].value

\* a write to a full cache whose entries all carry the timestamp of the
\* write has evicted another key and kept its own
C26_Witness ==
    /\ lastOp.op \in {"set", "setitem"} /\ lastOp.evicted # {}
    /\ lastOp.key \in KeysOf(response_cache.cache)
    /\ \A e \in EntrySet(response_cache.cache) : e.timestamp = now
    /\ \E k \in lastOp.evicted : written[k] = None

(***************************************************************************)
(* The answer-cache lookup (SpecEngine, SpecAsk).                          *)
(***************************************************************************)

\* this step of task t is an answer-cache lookup whose membership test
\* found the fingerprint present and unexpired
HitCheck(t) == task[t].pc = "new" /\ task'[t].check = "hit"

\* C27: when the hit check succeeds the query returns source=cache: the
\* membership test followed by the indexed read never ends in a KeyError or
\* in an Error-state result, whatever the clock does between the two.
C27_LookupStep ==
    \A t \in Tasks :
        HitCheck(t) =>
            /\ task'[t].pc = "done"
            /\ task'[t].result.source = "cache" /\ ~task'[t].result.error
            /\ error_count' = error_count

C27_HitReturnsCache == [][C27_LookupStep]_vars

\* the answer text generated for question q by the call that populated the
\* cache, as stored before this step
PopulatedText(q) == Str(CachedAnswerText(StoredValue(response_cache, Md5(q))))

\* C28: a result with source=cache for question q carries as its answer the
\* answer text generated by the call that populated the cache, whichever
\* path wrote the entry and whichever path reads it; reading an entry
\* written by the other path produces neither an error nor a non-text answer.
C28_CacheReadStep ==
    /\ (asks' = asks + 1 /\ lastAsk'.source = "cache") =>
           /\ ~lastAsk'.error
           /\ lastAsk'.answer = PopulatedText(lastAsk'.q)
    /\ \A t \in Tasks :
           (HitCheck(t) /\ task'[t].result.source = "cache") =>
               /\ ~task'[t].result.error
               /\ task'[t].result.answer = PopulatedText(task[t].q)

C28_CrossPathRead == [][C28_CacheReadStep]_vars

(***************************************************************************)
(* The counters of the engine.                                             *)
(***************************************************************************)

\* C29: in every reachable state cache_hits <= request_count and
\* error_count <= request_count, so that the reported cache hit rate and
\* error rate lie in [0, 1], through any entry point.
C29_CountersBounded ==
    /\ cache_hits <= request_count
    /\ error_count <= request_count

(***************************************************************************)
(* Termination of a batch (SpecGateLive).                                  *)
(***************************************************************************)

\* C30: if every collaborator call eventually returns or fails, every
\* request of a batch is eventually admitted by the gate and completes, and
\* the batch call eventually returns: no request waits for a slot forever.
C30_BatchTerminates ==
    <>(/\ batch.phase = "returned"
       /\ \A t \in Tasks : task[t].started >= 0 /\ task[t].pc = "done")

\* a batch of more requests than slots has returned after every request
\* went through the whole pipeline, so that each but the first waited for
\* the slot
C30_Witness ==
    /\ batch.phase = "returned"
    /\ max_concurrent = 1 /\ Len(task) > max_concurrent
    /\ \A t \in Tasks : task[t].check = "miss" /\ "generate" \in task[t].invoked

====
